---------------------------- MODULE Spec2Model ----------------------------
(***************************************************************************)
(* Programs/Syllabus/simple_trait.rs  (Program A: trait greet, Person,     *)
(* check<T:greet>, main) and Programs/Syllabus/struct_clone.rs (Program B: *)
(* struct book with derive(Debug, Clone, Copy), main).                     *)
(*                                                                         *)
(* Every run is one process executing one of the two mains, statement by   *)
(* statement.  Runs are independent operating-system processes: they share *)
(* nothing, and each has its own standard output.  Several runs are kept   *)
(* side by side so that run-to-run properties can be stated.               *)
(*                                                                         *)
(* pc labels are "<program>:<source line>".  Standard output is the        *)
(* sequence of lines written so far; println! appends exactly one line     *)
(* (none of the formatted values holds a newline).  Standard output is     *)
(* taken to be writable, as for a program started from a terminal.         *)
(***************************************************************************)
EXTENDS Integers, Sequences, FiniteSets

\* Number of runs kept side by side.
NumRuns == 2

Runs == 1..NumRuns

VARIABLES
    prog,    \* prog[r]  : which executable run r is ("A", "B", or "check" for a bare call of check)
    pc,      \* pc[r]    : the statement run r executes next
    stack,   \* stack[r] : return labels of the calls in progress
    p1,      \* A main's binding p1 : Person
    data,    \* check's parameter data : T (T = Person)
    self,    \* hello's &self: the binding it borrows ("none" outside hello)
    b1,      \* B main's binding b1 : book
    cb1,     \* B main's binding cb1 : book
    v1,      \* B main's binding v1 : Vec<book>
    iter,    \* the iterator the for loop makes from v1
    book,    \* the loop variable book
    out,     \* lines written to standard output
    trace,   \* history: calls made and loop bodies entered, in order
    exit     \* process exit status, -1 while the process runs

vars == <<prog, pc, stack, p1, data, self, b1, cb1, v1, iter, book, out, trace, exit>>

aVars == <<p1, data, self>>
bVars == <<b1, cb1, v1, iter, book>>

-----------------------------------------------------------------------------
(* Values *)

\* struct Person { name: String }, with the state of the binding that holds it
Person(n) == [st |-> "live", name |-> n]
NoPerson == [st |-> "uninit", name |-> ""]

\* struct book<'a> { name: &'a str, date: &'a str, quantity: i32 }
Book(n, d, q) == [st |-> "live", name |-> n, date |-> d, quantity |-> q]
NoBook == [st |-> "uninit", name |-> "", date |-> "", quantity |-> 0]

NoVec == [st |-> "uninit", elems |-> <<>>]

\* Person derives neither Clone nor Copy: passing it by value moves it and
\* leaves the source binding unusable; its bytes are not touched.
Moved(p) == [p EXCEPT !.st = "moved"]

\* data goes out of scope at the end of check: the Person (its String) is dropped.
Dropped(p) == [p EXCEPT !.st = "dropped"]

\* book derives Copy: using a book by value yields a bitwise copy of its three
\* fields and leaves the source binding live.
CopyBook(b) == [st |-> "live", name |-> b.name, date |-> b.date, quantity |-> b.quantity]

\* vec![b1]: a vector of the one element given.
\* Variant, not the source: the element is put in twice.
VecOfTwice(b) == [st |-> "live", elems |-> <<b, b>>]
VecOf(b) == [st |-> "live", elems |-> <<b>>]

-----------------------------------------------------------------------------
(* Formatting *)

\* "Kamal".to_string(): an owned String with the same text.
to_string(s) == s

\* {} of a String / &str: the text itself.
DisplayStr(s) == s

\* {:?} of a &str: the text between double quotes.  The literals of the
\* program hold no character that {:?} escapes.
DebugStr(s) == "\"" \o s \o "\""

Digit(d) == <<"0", "1", "2", "3", "4", "5", "6", "7", "8", "9">>[d + 1]

RECURSIVE DisplayNat(_)
DisplayNat(n) == IF n < 10 THEN Digit(n) ELSE DisplayNat(n \div 10) \o Digit(n % 10)

\* {} and {:?} of an i32: its decimal digits, with a leading minus sign.
DisplayI32(n) == IF n < 0 THEN "-" \o DisplayNat(0 - n) ELSE DisplayNat(n)

\* println!("Hello {}", self.name)
\* Variant, not the source: a comma after Hello.
FmtHelloComma(n) == "Hello, " \o DisplayStr(n)
FmtHello(n) == "Hello " \o DisplayStr(n)

\* derive(Debug) for book: the struct's name, then its fields in declared order.
\* Variant, not the source: date rendered before name.
DebugBookSwapped(b) ==
    "book { date: " \o DebugStr(b.date) \o ", name: " \o DebugStr(b.name)
        \o ", quantity: " \o DisplayI32(b.quantity) \o " }"
DebugBook(b) ==
    "book { name: " \o DebugStr(b.name) \o ", date: " \o DebugStr(b.date)
        \o ", quantity: " \o DisplayI32(b.quantity) \o " }"

\* println!("name {}", book.name)
FmtName(b) == "name " \o DisplayStr(b.name)
\* println!("full details = {:?}", book)
FmtDetails(b) == "full details = " \o DebugBook(b)
\* println!("cb1 = {:?}", cb1)
FmtCb1(b) == "cb1 = " \o DebugBook(b)

-----------------------------------------------------------------------------
(* Control *)

\* The statements of A's main, in source order.
\* Variant, not the source: check(p1) before p1.hello().
MainASwapped == <<"A:20", "A:22", "A:21", "A:23">>
MainA == <<"A:20", "A:21", "A:22", "A:23">>

\* The statement that follows l in A's main.
After(l) == MainA[(CHOOSE i \in 1..Len(MainA) : MainA[i] = l) + 1]

Event(e, a, l) == [ev |-> e, arg |-> a, at |-> l]

\* The binding a reference borrows.
Deref(r, ref) == IF ref = "p1" THEN p1[r] ELSE data[r]

-----------------------------------------------------------------------------
(* Initial states *)

InitRest ==
    /\ stack = [r \in Runs |-> <<>>]
    /\ p1 = [r \in Runs |-> NoPerson]
    /\ data = [r \in Runs |-> NoPerson]
    /\ self = [r \in Runs |-> "none"]
    /\ b1 = [r \in Runs |-> NoBook]
    /\ cb1 = [r \in Runs |-> NoBook]
    /\ v1 = [r \in Runs |-> NoVec]
    /\ iter = [r \in Runs |-> NoVec]
    /\ book = [r \in Runs |-> NoBook]
    /\ out = [r \in Runs |-> <<>>]
    /\ trace = [r \in Runs |-> <<>>]
    /\ exit = [r \in Runs |-> -1]

\* Each run is a fresh process of one of the two executables, at the first
\* statement of its main.
Init ==
    /\ prog \in [Runs -> {"A", "B"}]
    /\ pc = [r \in Runs |-> IF prog[r] = "A" THEN MainA[1] ELSE "B:10"]
    /\ InitRest

-----------------------------------------------------------------------------
(* Program A: simple_trait.rs *)

\* line 20: let p1 = Person{name:"Kamal".to_string()};
A_Construct(r) ==
    /\ pc[r] = "A:20"
    /\ p1' = [p1 EXCEPT ![r] = Person(to_string("Kamal"))]
    /\ pc' = [pc EXCEPT ![r] = After("A:20")]
    /\ UNCHANGED <<prog, stack, data, self, bVars, out, trace, exit>>

\* line 21: p1.hello();  -- borrows p1 and enters hello
A_CallHello(r) ==
    /\ pc[r] = "A:21"
    /\ self' = [self EXCEPT ![r] = "p1"]
    /\ stack' = [stack EXCEPT ![r] = <<After("A:21")>> \o @]
    /\ trace' = [trace EXCEPT ![r] = Append(@, Event("hello", "p1", "A:21"))]
    /\ pc' = [pc EXCEPT ![r] = "A:11"]
    /\ UNCHANGED <<prog, p1, data, bVars, out, exit>>

\* lines 10-12: fn hello(&self) { println!("Hello {}", self.name); }
\* Variant, not the source: hello takes the name out of the value it prints.
HelloTakesName(r) ==
    /\ pc[r] = "A:11"
    /\ out' = [out EXCEPT ![r] = Append(@, FmtHello(Deref(r, self[r]).name))]
    /\ IF self[r] = "p1"
         THEN p1' = [p1 EXCEPT ![r] = [@ EXCEPT !.name = ""]] /\ data' = data
         ELSE data' = [data EXCEPT ![r] = [@ EXCEPT !.name = ""]] /\ p1' = p1
    /\ self' = [self EXCEPT ![r] = "none"]
    /\ pc' = [pc EXCEPT ![r] = Head(stack[r])]
    /\ stack' = [stack EXCEPT ![r] = Tail(@)]
    /\ UNCHANGED <<prog, bVars, trace, exit>>
Hello(r) ==
    /\ pc[r] = "A:11"
    /\ out' = [out EXCEPT ![r] = Append(@, FmtHello(Deref(r, self[r]).name))]
    /\ self' = [self EXCEPT ![r] = "none"]
    /\ pc' = [pc EXCEPT ![r] = Head(stack[r])]
    /\ stack' = [stack EXCEPT ![r] = Tail(@)]
    /\ UNCHANGED <<prog, p1, data, bVars, trace, exit>>

\* line 22: check(p1);  -- p1 is moved into check's parameter data
A_CallCheck(r) ==
    /\ pc[r] = "A:22"
    /\ data' = [data EXCEPT ![r] = p1[r]]
    /\ p1' = [p1 EXCEPT ![r] = Moved(@)]
    /\ stack' = [stack EXCEPT ![r] = <<After("A:22")>> \o @]
    /\ trace' = [trace EXCEPT ![r] = Append(@, Event("check", "p1", "A:22"))]
    /\ pc' = [pc EXCEPT ![r] = "A:16"]
    /\ UNCHANGED <<prog, self, bVars, out, exit>>

\* line 16: data.hello();  -- borrows data and enters hello
Check_CallHello(r) ==
    /\ pc[r] = "A:16"
    /\ self' = [self EXCEPT ![r] = "data"]
    /\ stack' = [stack EXCEPT ![r] = <<"A:17">> \o @]
    /\ trace' = [trace EXCEPT ![r] = Append(@, Event("hello", "data", "A:16"))]
    /\ pc' = [pc EXCEPT ![r] = "A:11"]
    /\ UNCHANGED <<prog, p1, data, bVars, out, exit>>

\* line 17: } of check  -- data is dropped, control returns to the caller
\* Variant, not the source: check writes a line of its own.
Check_ReturnNoisy(r) ==
    /\ pc[r] = "A:17"
    /\ data' = [data EXCEPT ![r] = Dropped(@)]
    /\ out' = [out EXCEPT ![r] = Append(@, "checked")]
    /\ pc' = [pc EXCEPT ![r] = Head(stack[r])]
    /\ stack' = [stack EXCEPT ![r] = Tail(@)]
    /\ UNCHANGED <<prog, p1, self, bVars, trace, exit>>
Check_Return(r) ==
    /\ pc[r] = "A:17"
    /\ data' = [data EXCEPT ![r] = Dropped(@)]
    /\ pc' = [pc EXCEPT ![r] = Head(stack[r])]
    /\ stack' = [stack EXCEPT ![r] = Tail(@)]
    /\ UNCHANGED <<prog, p1, self, bVars, out, trace, exit>>

\* line 23: } of main  -- p1 was moved, nothing is left to drop; exit status 0
A_Exit(r) ==
    /\ pc[r] = "A:23"
    /\ exit' = [exit EXCEPT ![r] = 0]
    /\ pc' = [pc EXCEPT ![r] = "done"]
    /\ UNCHANGED <<prog, stack, aVars, bVars, out, trace>>

-----------------------------------------------------------------------------
(* Program B: struct_clone.rs *)

\* lines 10-14: let b1 = book{name:"Rust programmong", date:"19-Sep-2025", quantity:10};
B_Construct(r) ==
    /\ pc[r] = "B:10"
    /\ b1' = [b1 EXCEPT ![r] = Book("Rust programmong", "19-Sep-2025", 10)]
    /\ pc' = [pc EXCEPT ![r] = "B:16"]
    /\ UNCHANGED <<prog, stack, aVars, cb1, v1, iter, book, out, trace, exit>>

\* line 16: let cb1 = b1;  -- book is Copy: b1 stays live
\* Variant, not the source: the assignment moves b1 as it would a non-Copy value.
B_CopyMoves(r) ==
    /\ pc[r] = "B:16"
    /\ cb1' = [cb1 EXCEPT ![r] = b1[r]]
    /\ b1' = [b1 EXCEPT ![r] = [@ EXCEPT !.st = "moved"]]
    /\ pc' = [pc EXCEPT ![r] = "B:18"]
    /\ UNCHANGED <<prog, stack, aVars, v1, iter, book, out, trace, exit>>
B_Copy(r) ==
    /\ pc[r] = "B:16"
    /\ cb1' = [cb1 EXCEPT ![r] = CopyBook(b1[r])]
    /\ pc' = [pc EXCEPT ![r] = "B:18"]
    /\ UNCHANGED <<prog, stack, aVars, b1, v1, iter, book, out, trace, exit>>

\* line 18: let v1: Vec<book> = vec![b1];  -- another copy of b1
B_Vec(r) ==
    /\ pc[r] = "B:18"
    /\ v1' = [v1 EXCEPT ![r] = VecOf(CopyBook(b1[r]))]
    /\ pc' = [pc EXCEPT ![r] = "B:19"]
    /\ UNCHANGED <<prog, stack, aVars, b1, cb1, iter, book, out, trace, exit>>

\* line 19: for book in v1  -- v1 is moved into the loop's iterator
B_IntoIter(r) ==
    /\ pc[r] = "B:19"
    /\ iter' = [iter EXCEPT ![r] = v1[r]]
    /\ v1' = [v1 EXCEPT ![r] = [@ EXCEPT !.st = "moved"]]
    /\ pc' = [pc EXCEPT ![r] = "B:19.next"]
    /\ UNCHANGED <<prog, stack, aVars, b1, cb1, book, out, trace, exit>>

\* line 19: the iterator's next(): the first remaining element is moved into
\* the loop variable; when none remains the iterator is dropped and the loop ends.
\* Variant, not the source: running off the end of the sequence panics.
B_NextPanics(r) ==
    /\ pc[r] = "B:19.next"
    /\ IF iter[r].elems # <<>>
         THEN /\ book' = [book EXCEPT ![r] = Head(iter[r].elems)]
              /\ iter' = [iter EXCEPT ![r] = [@ EXCEPT !.elems = Tail(@)]]
              /\ trace' = [trace EXCEPT ![r] = Append(@, Event("body", "book", "B:19"))]
              /\ pc' = [pc EXCEPT ![r] = "B:20"]
              /\ exit' = exit
         ELSE /\ iter' = [iter EXCEPT ![r] = [@ EXCEPT !.st = "dropped"]]
              /\ pc' = [pc EXCEPT ![r] = "panicked"]
              /\ exit' = [exit EXCEPT ![r] = 101]
              /\ UNCHANGED <<book, trace>>
    /\ UNCHANGED <<prog, stack, aVars, b1, cb1, v1, out>>
B_Next(r) ==
    /\ pc[r] = "B:19.next"
    /\ IF iter[r].elems # <<>>
         THEN /\ book' = [book EXCEPT ![r] = Head(iter[r].elems)]
              /\ iter' = [iter EXCEPT ![r] = [@ EXCEPT !.elems = Tail(@)]]
              /\ trace' = [trace EXCEPT ![r] = Append(@, Event("body", "book", "B:19"))]
              /\ pc' = [pc EXCEPT ![r] = "B:20"]
         ELSE /\ iter' = [iter EXCEPT ![r] = [@ EXCEPT !.st = "dropped"]]
              /\ pc' = [pc EXCEPT ![r] = "B:24"]
              /\ UNCHANGED <<book, trace>>
    /\ UNCHANGED <<prog, stack, aVars, b1, cb1, v1, out, exit>>

\* line 20: println!("name {}",book.name);
B_PrintName(r) ==
    /\ pc[r] = "B:20"
    /\ out' = [out EXCEPT ![r] = Append(@, FmtName(book[r]))]
    /\ pc' = [pc EXCEPT ![r] = "B:21"]
    /\ UNCHANGED <<prog, stack, aVars, bVars, trace, exit>>

\* lines 21-22: println!("full details = {:?}", book); }  -- back to next()
B_PrintDetails(r) ==
    /\ pc[r] = "B:21"
    /\ out' = [out EXCEPT ![r] = Append(@, FmtDetails(book[r]))]
    /\ pc' = [pc EXCEPT ![r] = "B:19.next"]
    /\ UNCHANGED <<prog, stack, aVars, bVars, trace, exit>>

\* line 24: println!("cb1 = {:?}", cb1);
\* Variant, not the source: the address of cb1 is printed, which differs from run to run.
B_PrintCb1Addr(r) ==
    /\ pc[r] = "B:24"
    /\ \E addr \in {"0x7ffd4c3a", "0x7ffe9b10"} :
           out' = [out EXCEPT ![r] = Append(@, "cb1 = " \o addr)]
    /\ pc' = [pc EXCEPT ![r] = "B:25"]
    /\ UNCHANGED <<prog, stack, aVars, bVars, trace, exit>>
B_PrintCb1(r) ==
    /\ pc[r] = "B:24"
    /\ out' = [out EXCEPT ![r] = Append(@, FmtCb1(cb1[r]))]
    /\ pc' = [pc EXCEPT ![r] = "B:25"]
    /\ UNCHANGED <<prog, stack, aVars, bVars, trace, exit>>

\* line 25: } of main  -- book has no destructor; exit status 0
B_Exit(r) ==
    /\ pc[r] = "B:25"
    /\ exit' = [exit EXCEPT ![r] = 0]
    /\ pc' = [pc EXCEPT ![r] = "done"]
    /\ UNCHANGED <<prog, stack, aVars, bVars, out, trace>>

-----------------------------------------------------------------------------
(* Specifications *)

RunStep(r) ==
    \/ A_Construct(r)
    \/ A_CallHello(r)
    \/ Hello(r)
    \/ A_CallCheck(r)
    \/ Check_CallHello(r)
    \/ Check_Return(r)
    \/ A_Exit(r)
    \/ B_Construct(r)
    \/ B_Copy(r)
    \/ B_Vec(r)
    \/ B_IntoIter(r)
    \/ B_Next(r)
    \/ B_PrintName(r)
    \/ B_PrintDetails(r)
    \/ B_PrintCb1(r)
    \/ B_Exit(r)

Next == \E r \in Runs : RunStep(r)

Spec == Init /\ [][Next]_vars

\* A process that can take a step takes it: each run is a sequential program
\* the operating system keeps scheduling until it exits.
SpecFair == Spec /\ \A r \in Runs : WF_vars(RunStep(r))

-----------------------------------------------------------------------------
(* check<T:greet>(data:T) called on its own: the caller hands over any value *)
(* of a type that implements greet.  Person is the one type that does.      *)

Names == {"Kamal", "", "Ada", "Grace Hopper"}

InitCheck ==
    /\ prog = [r \in Runs |-> "check"]
    /\ pc = [r \in Runs |-> "A:16"]
    /\ stack = [r \in Runs |-> <<"caller">>]
    /\ p1 = [r \in Runs |-> NoPerson]
    /\ data \in [Runs -> {Person(n) : n \in Names}]
    /\ self = [r \in Runs |-> "none"]
    /\ b1 = [r \in Runs |-> NoBook]
    /\ cb1 = [r \in Runs |-> NoBook]
    /\ v1 = [r \in Runs |-> NoVec]
    /\ iter = [r \in Runs |-> NoVec]
    /\ book = [r \in Runs |-> NoBook]
    /\ out = [r \in Runs |-> <<>>]
    /\ trace = [r \in Runs |-> <<>>]
    /\ exit = [r \in Runs |-> -1]

CheckStep(r) ==
    \/ Check_CallHello(r)
    \/ Hello(r)
    \/ Check_Return(r)

NextCheck == \E r \in Runs : CheckStep(r)

SpecCheck == InitCheck /\ [][NextCheck]_vars

-----------------------------------------------------------------------------
(* Properties *)

IsPrefix(s, t) == Len(s) <= Len(t) /\ \A i \in 1..Len(s) : s[i] = t[i]

RunsOf(p) == {r \in Runs : prog[r] = p}

\* The three-line output of Program B, as the Rust build prints it.
ExpectedB ==
    << "name Rust programmong",
       "full details = book { name: \"Rust programmong\", date: \"19-Sep-2025\", quantity: 10 }",
       "cb1 = book { name: \"Rust programmong\", date: \"19-Sep-2025\", quantity: 10 }" >>

\* The values b1 is constructed with.
TheBook == [st |-> "live", name |-> "Rust programmong", date |-> "19-Sep-2025", quantity |-> 10]

\* C1: Program A writes exactly two lines, "Hello Kamal" twice, and nothing
\* else: the first is written by the direct call p1.hello() (it is there when
\* main reaches check(p1)), the second by the hello that check calls.
C1_ProgramAOutput ==
    \A r \in RunsOf("A") :
        /\ IsPrefix(out[r], <<"Hello Kamal", "Hello Kamal">>)
        /\ pc[r] = "A:22" => /\ out[r] = <<"Hello Kamal">>
                             /\ trace[r] = <<Event("hello", "p1", "A:21")>>
        /\ pc[r] = "done" =>
              /\ out[r] = <<"Hello Kamal", "Hello Kamal">>
              /\ trace[r] = << Event("hello", "p1", "A:21"),
                               Event("check", "p1", "A:22"),
                               Event("hello", "data", "A:16") >>
C1_Witness == \E r \in RunsOf("A") : pc[r] = "done" /\ Len(out[r]) = 2

\* C2: a call of check(data), for any value handed to it, calls data.hello()
\* exactly once and does nothing else that can be observed: when it returns,
\* the one hello call is its whole call history and hello's line is the whole
\* output, and no step of the call changes the value's field or touches any
\* other binding or the exit status.
C2_Returned ==
    \A r \in Runs :
        pc[r] = "caller" =>
            /\ trace[r] = <<Event("hello", "data", "A:16")>>
            /\ out[r] = <<"Hello " \o data[r].name>>
C2_Frame ==
    /\ \A r \in Runs : data'[r].name = data[r].name
    /\ UNCHANGED <<prog, p1, bVars, exit>>
C2_CheckCallsHelloOnce == []C2_Returned /\ [][C2_Frame]_vars
C2_Witness ==
    \E r \in Runs : pc[r] = "caller" /\ data[r].name = "Ada" /\ out[r] = <<"Hello Ada">>

\* C3 (as the claim states it): Program B has written four lines when it exits.
C3_FourLines == \A r \in RunsOf("B") : pc[r] = "done" => Len(out[r]) = 4
\* C3 (amended): Program B writes exactly three lines before it exits, one
\* after the other: none before the loop body, one after line 20, two after
\* line 21 and until the loop is over, three from line 24 on.
C3_ThreeLines ==
    \A r \in RunsOf("B") :
        /\ Len(out[r]) <= 3
        /\ pc[r] \in {"B:10", "B:16", "B:18", "B:19", "B:20"} => Len(out[r]) = 0
        /\ pc[r] = "B:21" => Len(out[r]) = 1
        /\ pc[r] = "B:24" => Len(out[r]) = 2
        /\ pc[r] \in {"B:25", "done"} => Len(out[r]) = 3
C3_Witness == \E r \in RunsOf("B") : pc[r] = "done" /\ exit[r] = 0 /\ Len(out[r]) = 3

\* C4: Program B prints three lines in all: per element of v1 (there is one) a
\* "name" line directly followed by a "full details" line, and the "cb1" line
\* once the loop is over; the name is Rust programmong and both debug
\* renderings give name, date, quantity in that order with the values
\* Rust programmong, 19-Sep-2025, 10.
C4_ProgramBLines ==
    \A r \in RunsOf("B") :
        /\ IsPrefix(out[r], ExpectedB)
        /\ pc[r] = "B:19.next" => Len(out[r]) = 2 * Len(trace[r])
        /\ pc[r] = "B:24" => out[r] = SubSeq(ExpectedB, 1, 2) /\ Len(trace[r]) = 1
        /\ pc[r] = "done" => out[r] = ExpectedB
C4_Witness ==
    \E r \in RunsOf("B") : pc[r] = "done" /\ Len(out[r]) = 3 /\ out[r][3] = ExpectedB[3]

\* C5: once cb1 = b1 has made the copy, b1 and cb1 are both live and both hold
\* the values b1 was built with, whatever happens to the copy put into v1
\* (moved into the iterator, moved out into the loop variable, iterator
\* dropped); the cb1 line printed after the loop shows those values.
C5_CopiesIndependent ==
    \A r \in RunsOf("B") :
        /\ pc[r] \notin {"B:10", "B:16"} => b1[r] = TheBook /\ cb1[r] = TheBook
        /\ pc[r] \in {"B:25", "done"} =>
              /\ v1[r].st = "moved" /\ iter[r].st = "dropped"
              /\ out[r][3] = FmtCb1(TheBook)
C5_Witness ==
    \E r \in RunsOf("B") :
        pc[r] = "B:24" /\ iter[r].st = "dropped" /\ iter[r].elems = <<>> /\ cb1[r] = TheBook

\* C6: two runs of the same program that are at the same point of it (same
\* statement, same calls in progress, same number of calls and loop rounds
\* behind them) have written the same lines and have the same exit status;
\* in particular two finished runs have the same output.
C6_Deterministic ==
    \A r1, r2 \in Runs :
        (/\ prog[r1] = prog[r2]
         /\ pc[r1] = pc[r2]
         /\ stack[r1] = stack[r2]
         /\ Len(trace[r1]) = Len(trace[r2]))
        => out[r1] = out[r2] /\ exit[r1] = exit[r2]
C6_Witness ==
    \/ \E r1, r2 \in RunsOf("A") :
          r1 # r2 /\ pc[r1] = "done" /\ pc[r2] = "done" /\ Len(out[r1]) = 2
    \/ \E r1, r2 \in RunsOf("B") :
          r1 # r2 /\ pc[r1] = "done" /\ pc[r2] = "done" /\ Len(out[r1]) = 3

\* C7: every run ends: it reaches its exit with status 0 and all of its
\* output written (two lines for A, three for B), and on the way it never
\* panics and never has another exit status.
Terminated(r) ==
    /\ pc[r] = "done"
    /\ exit[r] = 0
    /\ Len(out[r]) = IF prog[r] = "A" THEN 2 ELSE 3
NoError == \A r \in Runs : pc[r] # "panicked" /\ exit[r] \in {-1, 0}
C7_Terminates == []NoError /\ <>[](\A r \in Runs : Terminated(r))
C7_Witness == \A r \in Runs : Terminated(r)

\* C8: in Program A, check(p1) moves p1 into data; when p1 is moved the direct
\* p1.hello() has already been called, before check; nothing of main but its
\* closing brace follows check; and hello never borrows a binding that is not live.
C8_OwnershipOrder ==
    \A r \in RunsOf("A") :
        /\ p1[r].st = "moved" =>
              /\ Len(trace[r]) >= 2
              /\ trace[r][1] = Event("hello", "p1", "A:21")
              /\ trace[r][2] = Event("check", "p1", "A:22")
              /\ pc[r] \in {"A:16", "A:11", "A:17", "A:23", "done"}
        /\ pc[r] \in {"A:16", "A:17"} => p1[r].st = "moved" /\ data[r].st = "live"
        /\ self[r] # "none" => Deref(r, self[r]).st = "live"
        /\ pc[r] = "done" => p1[r].st = "moved" /\ trace[r][2].ev = "check"
C8_Witness ==
    \E r \in RunsOf("A") : pc[r] = "A:11" /\ p1[r].st = "moved" /\ self[r] = "data"

\* C9: once the Person is built, the binding that holds it (p1, then data)
\* has name Kamal in every state; hello and check leave it as it is, so every
\* line written is the greeting of that one name.
C9_NameImmutable ==
    \A r \in RunsOf("A") :
        /\ p1[r].st # "uninit" => p1[r].name = "Kamal"
        /\ data[r].st # "uninit" => data[r].name = "Kamal"
        /\ \A i \in 1..Len(out[r]) : out[r][i] = out[r][1]
C9_Witness ==
    \E r \in RunsOf("A") : pc[r] = "A:17" /\ data[r].name = "Kamal" /\ Len(out[r]) = 2

\* C10: when the loop starts v1 holds one book, the copy of b1; the loop body
\* is entered once per element; each round takes the first remaining entry
\* out; when the loop is over nothing remains, the iterator is dropped and v1
\* is moved, and no statement that reads v1 is ahead.
C10_SequenceConsumed ==
    \A r \in RunsOf("B") :
        /\ pc[r] = "B:19" => v1[r].st = "live" /\ v1[r].elems = <<b1[r]>>
        /\ pc[r] \in {"B:19.next", "B:20", "B:21"} =>
              /\ v1[r].st = "moved" /\ iter[r].st = "live"
              /\ Len(trace[r]) + Len(iter[r].elems) = Len(v1[r].elems)
        /\ pc[r] \in {"B:20", "B:21"} => book[r] = v1[r].elems[Len(trace[r])]
        /\ pc[r] \in {"B:24", "B:25", "done"} =>
              /\ v1[r].st = "moved"
              /\ iter[r].st = "dropped" /\ iter[r].elems = <<>>
              /\ Len(trace[r]) = 1
C10_Witness ==
    \E r \in RunsOf("B") : pc[r] = "B:24" /\ v1[r].st = "moved" /\ Len(trace[r]) = 1

=============================================================================
